---- MODULE Spec2Model ----
(***************************************************************************)
(* Model of the Beamable SDK session layer:                                *)
(*   BeamableCore  (src/src/core/BeamableCore.ts, the class of lines       *)
(*                  101-220, the one with static tokens and server mode),  *)
(*   BeamContext   (src/unnamed/part_002, lines 16-89),                    *)
(*   AuthModule    (src/src/modules/Auth.ts),                              *)
(*   StatsModule   (src/unnamed/part_002, lines 100-205).                  *)
(*                                                                         *)
(* JavaScript strings are TLA+ strings; null and undefined are the two     *)
(* reserved strings NULL and UNDEF.  A handler of the event loop (the code *)
(* that runs between two awaits on the network) is one action.             *)
(***************************************************************************)
EXTENDS Naturals, Sequences, FiniteSets, Bags, TLC

\* ------------------------------------------------------------------ bounds

\* BeamableCore instances constructed in a run (the singleton's included).
MaxCores == 2
\* Call chains (async functions awaiting a response) alive at the same time.
MaxTasks == 2
MaxAwaiters == 2

\* ------------------------------------------------------- JavaScript values

NULL == "<null>"
UNDEF == "<undefined>"
\* A header that the request does not carry.
ABSENT == "<absent>"
\* opts.microservice === true
MsTrue == "<true>"

\* JavaScript truthiness of a string | null | undefined value.
Truthy(s) == s \notin {NULL, UNDEF, ""}

\* A value inside a template literal: `${s}`.
Template(s) ==
  CASE s = UNDEF -> "undefined"
    [] s = NULL -> "null"
    [] OTHER -> s

\* `data?: any`: undefined, a number, or an object given as its sequence of
\* <<key, string value>> properties.
DataUndefined == [t |-> "undefined", n |-> 0, o |-> <<>>]
DataNumber(k) == [t |-> "number", n |-> k, o |-> <<>>]
DataObject(props) == [t |-> "object", n |-> 0, o |-> props]

\* JavaScript truthiness of a data value: undefined and 0 are falsy, every
\* object (the empty one too) is truthy.
TruthyData(d) ==
  CASE d.t = "undefined" -> FALSE
    [] d.t = "number" -> d.n # 0
    [] d.t = "object" -> TRUE
    [] d.t = "string" -> d.o[1] # ""
    [] d.t = "boolean" -> d.n = 1
    [] d.t = "nested" -> TRUE

Digits == <<"0", "1", "2", "3", "4", "5", "6", "7", "8", "9">>

RECURSIVE JSONProps(_)
JSONProps(props) ==
  IF props = <<>> THEN ""
  ELSE "\"" \o props[1][1] \o "\":\"" \o props[1][2] \o "\""
       \o (IF Len(props) > 1 THEN "," ELSE "")
       \o JSONProps(Tail(props))

\* A string, a boolean, and an object given as its sequence of <<key, data
\* value>> properties (a body built by a facade).
DataString(str) == [t |-> "string", n |-> 0, o |-> <<str>>]
DataBoolean(b) == [t |-> "boolean", n |-> IF b THEN 1 ELSE 0, o |-> <<>>]
DataNested(props) == [t |-> "nested", n |-> 0, o |-> props]

RECURSIVE JSONStringify(_)

\* JSON.stringify of the properties of a nested object: a property whose
\* value is undefined is left out.
RECURSIVE JSONMembers(_)
JSONMembers(props) ==
  IF props = <<>> THEN ""
  ELSE LET rest == JSONMembers(Tail(props))
       IN  IF props[1][2].t = "undefined" THEN rest
           ELSE "\"" \o props[1][1] \o "\":" \o JSONStringify(props[1][2])
                \o (IF rest = "" THEN "" ELSE ",") \o rest

\* JSON.stringify(data)
JSONStringify(d) ==
  CASE d.t = "undefined" -> UNDEF
    [] d.t = "number" -> Digits[d.n + 1]
    [] d.t = "object" -> "{" \o JSONProps(d.o) \o "}"
    [] d.t = "string" -> "\"" \o d.o[1] \o "\""
    [] d.t = "boolean" -> IF d.n = 1 THEN "true" ELSE "false"
    [] d.t = "nested" -> "{" \o JSONMembers(d.o) \o "}"

\* ------------------------------------------------------------ input sets

ApiUrl == "https://api.example.com"
Cid == "c1"
Pid == "p1"
Secret == "s3cr3t"

BeamableConfig(mode, secret, hash) ==
  [apiUrl |-> ApiUrl, cid |-> Cid, pid |-> Pid, hash |-> hash,
   secret |-> secret, mode |-> mode]

\* The configurations the session is exercised with: client (mode
\* omitted), server with a secret, server with the empty secret
\* (tests/server.test.ts:6 when VITE_SECRET is unset).
Configs ==
  { BeamableConfig(UNDEF, UNDEF, UNDEF),
    BeamableConfig("server", Secret, UNDEF),
    BeamableConfig("server", "", UNDEF) }

\* The configurations the core alone is exercised with.
CoreConfigs ==
  { BeamableConfig(UNDEF, UNDEF, UNDEF),
    BeamableConfig("client", Secret, "h1"),
    BeamableConfig("server", Secret, UNDEF),
    BeamableConfig("server", "", "h1") }

NoConfig == BeamableConfig(NULL, NULL, NULL)

\* Tokens are opaque non-empty strings: the ones the backend hands out.
AccessTokens == {"t1", "t2"}
RefreshTokens == {"r1", "r2"}

Methods == {"GET", "POST", "DELETE"}
Paths == {"/object/stats/x", "/basic/accounts/me?q=1"}
Datas == { DataUndefined, DataNumber(0), DataObject(<<>>), DataObject(<< <<"stats", "wins">> >>) }
Gamertags == {UNDEF, "42"}
Microservices == {UNDEF, MsTrue, "Chat"}

Options(auth, microservice, gamertag) ==
  [auth |-> auth, microservice |-> microservice, gamertag |-> gamertag]

\* ------------------------------------------------------------------ state

VARIABLES
  globalConfig,   \* BeamableCore._globalConfig (NoConfig: null)
  cores,          \* the BeamableCore instances: the config each one holds
  tokenStore,     \* token slot -> [accessToken, refreshToken]
  default,        \* BeamContext._default: 0 (null) or an index of contexts
  contexts,       \* the createDefault() calls made: promise and context
  tasks,          \* the call chains awaiting a response
  wire,           \* the fetch() calls made by the last handler run
  settled         \* how the request() call that handler settled ended

vars == <<globalConfig, cores, tokenStore, default, contexts, tasks, wire,
          settled>>

\* ------------------------------------------------------------ BeamableCore

\* Tokens kept in instance fields (this.accessToken), one slot per instance.
TokenSlotPerInstance(i) == i

\* Where instance i keeps its tokens. The fields are static
\* (BeamableCore.accessToken), so every instance uses the one slot 0.
TokenSlot(i) == 0

TokenSlots == 0 .. MaxCores
NoTokens == [accessToken |-> NULL, refreshToken |-> NULL]

\* setTokens assigning the refresh token whatever it is.
setTokensAssignsBoth(store, i, accessToken, refreshToken) ==
  [store EXCEPT ![TokenSlot(i)] =
     [accessToken |-> accessToken, refreshToken |-> refreshToken]]

\* setTokens(accessToken, refreshToken?) on instance i: the store afterwards.
setTokens(store, i, accessToken, refreshToken) ==
  [store EXCEPT ![TokenSlot(i)] =
     [accessToken |-> accessToken,
      refreshToken |-> IF Truthy(refreshToken) THEN refreshToken
                       ELSE @.refreshToken]]

\* getTokens() on instance i.
getTokens(store, i) == store[TokenSlot(i)]

\* CryptoJS.enc.Base64.stringify(CryptoJS.MD5(dataToSign)): the digest is
\* kept as the string it was computed from (equal strings, equal digests).
Base64MD5(dataToSign) == [present |-> TRUE, md5of |-> dataToSign]
NoSignature == [present |-> FALSE, md5of |-> ""]

\* The digested string with the body appended for DELETE too.
DataToSignWithBody(config, uriPathAndQuery, body, method) ==
  Template(config.secret) \o config.pid \o "1" \o uriPathAndQuery
  \o (IF TruthyData(body) THEN JSONStringify(body) ELSE "")

\* The digested string with the customer id in it.
DataToSignWithCid(config, uriPathAndQuery, body, method) ==
  Template(config.secret) \o config.cid \o config.pid \o "1" \o uriPathAndQuery
  \o (IF TruthyData(body) /\ method # "DELETE" THEN JSONStringify(body) ELSE "")

\* The string calculateSignature digests.
DataToSign(config, uriPathAndQuery, body, method) ==
  Template(config.secret) \o config.pid \o "1" \o uriPathAndQuery
  \o (IF TruthyData(body) /\ method # "DELETE" THEN JSONStringify(body) ELSE "")

calculateSignature(config, uriPathAndQuery, body, method) ==
  Base64MD5(DataToSign(config, uriPathAndQuery, body, method))

\* The path joined to apiUrl with a slash of its own.
RequestUrlAddsSlash(config, path, opts) ==
  IF Truthy(opts.microservice)
  THEN config.apiUrl \o "/basic/" \o config.cid \o "." \o config.pid \o "."
       \o (IF Truthy(config.hash) THEN config.hash ELSE "")
       \o "micro_"
       \o (IF opts.microservice = MsTrue THEN "CoreService" ELSE opts.microservice)
       \o path
  ELSE config.apiUrl \o "/" \o path

\* The URL carrying the secret as a query parameter.
RequestUrlWithSecret(config, path, opts) ==
  config.apiUrl \o path \o "?secret=" \o Template(config.secret)

\* The URL request() calls.
RequestUrl(config, path, opts) ==
  IF Truthy(opts.microservice)
  THEN config.apiUrl \o "/basic/" \o config.cid \o "." \o config.pid \o "."
       \o (IF Truthy(config.hash) THEN config.hash ELSE "")
       \o "micro_"
       \o (IF opts.microservice = MsTrue THEN "CoreService" ELSE opts.microservice)
       \o path
  ELSE config.apiUrl \o path

\* Authorization attached whatever the mode.
AuthorizationHeaderAnyMode(config, accessToken, opts) ==
  IF opts.auth /\ Truthy(accessToken) THEN "Bearer " \o accessToken ELSE ABSENT

\* Authorization, set for client mode.
AuthorizationHeader(config, accessToken, opts) ==
  IF opts.auth /\ Truthy(accessToken) /\ config.mode # "server"
  THEN "Bearer " \o accessToken
  ELSE ABSENT

\* X-BEAM-SIGNATURE, set for server mode.
SignatureHeader(config, method, path, data) ==
  IF config.mode = "server" /\ Truthy(config.secret)
  THEN calculateSignature(config, path, data, method)
  ELSE NoSignature

\* X-BEAM-GAMERTAG never attached.
GamertagHeaderNever(opts) == ABSENT

\* X-BEAM-GAMERTAG, set if provided.
GamertagHeader(opts) ==
  IF Truthy(opts.gamertag) THEN opts.gamertag ELSE ABSENT

\* A body sent with GET too.
RequestBodyAnyMethod(method, data) ==
  IF TruthyData(data) THEN JSONStringify(data) ELSE ABSENT

\* The body of fetchOpts.
RequestBody(method, data) ==
  IF TruthyData(data) /\ method # "GET" THEN JSONStringify(data) ELSE ABSENT

\* request(method, path, data, opts) on an instance with this config while
\* the shared access token is accessToken: the fetch() call it makes.
request(config, accessToken, method, path, data, opts) ==
  [method |-> method,
   url |-> RequestUrl(config, path, opts),
   headers |->
     [ContentType |-> "application/json",
      Scope |-> config.cid \o "." \o config.pid,
      Authorization |-> AuthorizationHeader(config, accessToken, opts),
      Signature |-> SignatureHeader(config, method, path, data),
      Gamertag |-> GamertagHeader(opts)],
   body |-> RequestBody(method, data)]

\* requestMicroservice(method, msName, path, data, opts): request() with
\* { ...opts, microservice: msName }.
requestMicroservice(config, accessToken, method, msName, path, data, opts) ==
  request(config, accessToken, method, path, data,
          [opts EXCEPT !.microservice = msName])

\* The fetch() call of request() on instance i of the instances cs, kept
\* with the arguments request() was called with.
Fetch(cs, store, i, method, path, data, opts) ==
  [core |-> i, method |-> method, path |-> path, data |-> data, opts |-> opts,
   sent |-> request(cs[i], getTokens(store, i).accessToken,
                    method, path, data, opts)]

\* The fetch() call of requestMicroservice() on instance i.
MicroserviceFetch(cs, store, i, method, msName, path, data, opts) ==
  [core |-> i, method |-> method, path |-> path, data |-> data,
   opts |-> [opts EXCEPT !.microservice = msName],
   sent |-> requestMicroservice(cs[i], getTokens(store, i).accessToken,
                                method, msName, path, data, opts)]

\* ---------------------------------------------------------------- backend

\* The account an access token belongs to (GET /basic/accounts/me -> id).
AccountOf(token) == IF token = "t1" THEN 1 ELSE 2

\* playerId = null
NullId == 0

\* String(n)
RECURSIVE Decimal(_)
Decimal(n) ==
  IF n < 10 THEN Digits[n + 1] ELSE Decimal(n \div 10) \o Digits[(n % 10) + 1]

\* fetch() rejected: there is no response.
NoStatus == 0

\* response.ok
ResponseOk(status) == status \in 200 .. 299

\* What fetch() yields for a request: status and body text of the response
\* (parseable: response.json() succeeds on it), or the error fetch() threw
\* (status NoStatus, text the error). access_token, refresh_token and id are
\* the fields of the parsed body; ok: request() returns that body.
Response(status, parseable, text, a, r, id) ==
  [status |-> status, parseable |-> parseable, text |-> text,
   access_token |-> a, refresh_token |-> r, id |-> id,
   ok |-> ResponseOk(status) /\ parseable]

\* A rejected fetch(): connection refused, DNS failure.
Failure ==
  Response(NoStatus, FALSE, "TypeError: fetch failed", UNDEF, UNDEF, NullId)

\* A non-2xx answer, with a JSON error body or with a body that is not JSON.
ErrorResponse(parseable) ==
  Response(404, parseable,
           IF parseable THEN "{\"error\":\"NotFound\"}" ELSE "Not Found",
           UNDEF, UNDEF, NullId)

\* A 2xx answer without a JSON body (204 No Content).
EmptyResponse == Response(204, FALSE, "", UNDEF, UNDEF, NullId)

TokenResponse(a, r) ==
  Response(200, TRUE,
           "{\"access_token\":\"" \o a \o "\",\"refresh_token\":\"" \o r \o "\"}",
           a, r, NullId)
AccountResponse(id) ==
  Response(200, TRUE, "{\"id\":" \o Decimal(id) \o "}", UNDEF, UNDEF, id)

\* The answers after which request() throws.
Failures == {Failure, ErrorResponse(TRUE), ErrorResponse(FALSE), EmptyResponse}

\* How a call of request() ends for its caller: the response it got, and
\* whether the promise resolved or rejected, and with what.
Outcome(resp, state, payload) ==
  [call |-> "request", status |-> resp.status, parseable |-> resp.parseable,
   text |-> resp.text, state |-> state, payload |-> payload]
NoOutcome ==
  [call |-> "none", status |-> NoStatus, parseable |-> FALSE, text |-> "",
   state |-> "none", payload |-> ""]

\* The outcome of request() as the outcome of the method that awaited it
\* and returns its result or lets its error pass.
CalledAs(op, outcome) == [outcome EXCEPT !.call = op]

\* { status: response.status }
StatusObject(status) == "{\"status\":" \o Decimal(status) \o "}"

\* request() from `await fetch(...)` on: a rejected fetch() propagates, a
\* non-2xx answer throws the parsed body or {status}, otherwise the result
\* is response.json(), which rejects on a body that is not JSON. A parsed
\* body is written as its JSON text.
requestOutcome(resp) ==
  IF resp.status = NoStatus
  THEN Outcome(resp, "rejected", resp.text)
  ELSE IF ~ResponseOk(resp.status)
       THEN Outcome(resp, "rejected",
                    IF resp.parseable THEN resp.text
                    ELSE StatusObject(resp.status))
       ELSE IF resp.parseable
            THEN Outcome(resp, "resolved", resp.text)
            ELSE Outcome(resp, "rejected", "SyntaxError")

Responses(task) ==
  Failures \cup
  CASE task.awaits = "token" ->
         {TokenResponse("t1", "r1"), TokenResponse("t2", "r2")}
    [] task.awaits = "me" ->
         {AccountResponse(AccountOf(a)) :
            a \in {b \in AccessTokens : task.auth = "Bearer " \o b}}
    [] OTHER -> {AccountResponse(NullId)}

\* ------------------------------------------------------------- call chains

\* kind: which async function awaits; awaits: which request it awaits;
\* auth: the Authorization header that request carries; boot: the chain was
\* started by createDefault.
Task(kind, ctx, awaits, fetch, boot) ==
  [kind |-> kind, ctx |-> ctx, core |-> fetch.core, awaits |-> awaits,
   auth |-> fetch.sent.headers.Authorization, boot |-> boot]

\* A caller awaiting request(): what it does with the answer is its own.
RequestTask ==
  [kind |-> "request", ctx |-> 0, core |-> 0, awaits |-> "any", auth |-> ABSENT,
   boot |-> FALSE]

\* No fetch() call is waiting for the transport.
Quiet == wire = <<>> /\ settled = NoOutcome

\* The handler ends having made these fetch() calls; no request() call made
\* from outside the SDK settles in it.
Dispatch(fetches) == wire' = fetches /\ settled' = NoOutcome

\* tasks is the bag of the call chains alive.
Running(ts) == BagToSet(ts)
Start(ts, task) == ts (+) SetToBag({task})
Finish(ts, task) == ts (-) SetToBag({task})
\* A createDefault awaiting guestLogin needs a second call chain for the
\* _resolveOnReady that guestLogin starts.
Reserved(ts) ==
  Cardinality({u \in Running(ts) : u.kind = "createDefault" /\ u.awaits = "token"})
Room(ts) == MaxTasks - BagCardinality(ts) - Reserved(ts)

CoreIds == 1 .. Len(cores)

\* ----------------------------------------------------- AuthModule requests

NoOptions == Options(FALSE, UNDEF, UNDEF)

\* The methods of AuthModule that log in, and the other ones.
LoginOps ==
  {"guestLogin", "loginUser", "loginWithExternal", "loginWithDeviceId",
   "refreshToken", "loginWithThirdParty"}
OtherOps ==
  {"registerUser", "isThirdPartyAvailable", "isEmailAvailable",
   "passwordUpdateInit", "passwordUpdateConfirm", "emailUpdateInit",
   "emailUpdateConfirm", "removeThirdPartyAssociation", "updateAccount"}

\* grant_type of each login method.
GrantOf(op) ==
  CASE op = "guestLogin" -> "guest"
    [] op = "loginUser" -> "password"
    [] op = "loginWithExternal" -> "external"
    [] op = "loginWithDeviceId" -> "device"
    [] op = "refreshToken" -> "refresh_token"
    [] op = "loginWithThirdParty" -> "third_party"

\* The body each login method posts.
GrantBody(grant) ==
  CASE grant = "guest" -> DataObject(<< <<"grant_type", "guest">> >>)
    [] grant = "password" ->
         DataObject(<< <<"grant_type", "password">>, <<"username", "u">>,
                       <<"password", "pw">> >>)
    [] grant = "external" ->
         DataObject(<< <<"grant_type", "external">>, <<"provider_service", "svc">>,
                       <<"provider_namespace", "ns">>, <<"external_token", "x">> >>)
    [] grant = "device" ->
         DataObject(<< <<"grant_type", "device">>, <<"client_id", "d1">> >>)
    [] grant = "refresh_token" ->
         DataObject(<< <<"grant_type", "refresh_token">>, <<"refresh_token", "r1">> >>)
    [] grant = "third_party" ->
         DataObject(<< <<"grant_type", "third_party">>, <<"third_party", "Google">>,
                       <<"external_token", "x">> >>)

\* `gamertag ? { gamertag } : undefined` and
\* `gamertag ? { auth: true, gamertag } : { auth: true }`
GamertagOptions(g) == Options(FALSE, UNDEF, g)
AuthGamertagOptions(g) == Options(TRUE, UNDEF, g)

\* The request of a login method called with gamertag g (guestLogin takes
\* none).
LoginFetch(cs, store, i, op, g) ==
  Fetch(cs, store, i, "POST", "/basic/auth/token", GrantBody(GrantOf(op)),
        IF op = "guestLogin" THEN NoOptions ELSE GamertagOptions(g))

\* The request of each other method of AuthModule called with gamertag g.
OtherFetch(cs, store, i, op, g) ==
  CASE op = "registerUser" ->
         Fetch(cs, store, i, "POST", "/basic/accounts/register",
               DataObject(<< <<"email", "u">>, <<"password", "pw">> >>),
               AuthGamertagOptions(g))
    [] op = "isThirdPartyAvailable" ->
         Fetch(cs, store, i, "GET",
               "/basic/accounts/available/third-party?third_party=Google&external_token=x",
               DataUndefined, GamertagOptions(g))
    [] op = "isEmailAvailable" ->
         Fetch(cs, store, i, "GET", "/basic/accounts/available?email=u",
               DataUndefined, GamertagOptions(g))
    [] op = "passwordUpdateInit" ->
         Fetch(cs, store, i, "POST", "/basic/accounts/password-update/init",
               DataObject(<< <<"email", "u">> >>), GamertagOptions(g))
    [] op = "passwordUpdateConfirm" ->
         Fetch(cs, store, i, "POST", "/basic/accounts/password-update/confirm",
               DataObject(<< <<"email", "u">>, <<"code", "c0">>, <<"password", "pw">> >>),
               GamertagOptions(g))
    [] op = "emailUpdateInit" ->
         Fetch(cs, store, i, "POST", "/basic/accounts/email-update/init",
               DataObject(<< <<"newEmail", "u">> >>), GamertagOptions(g))
    [] op = "emailUpdateConfirm" ->
         Fetch(cs, store, i, "POST", "/basic/accounts/email-update/confirm",
               DataObject(<< <<"code", "c0">>, <<"password", "pw">> >>),
               GamertagOptions(g))
    [] op = "removeThirdPartyAssociation" ->
         Fetch(cs, store, i, "DELETE", "/basic/accounts/me/third-party",
               DataObject(<< <<"provider", "Google">> >>), GamertagOptions(g))
    [] op = "updateAccount" ->
         Fetch(cs, store, i, "PUT", "/basic/accounts/me",
               DataObject(<< <<"deviceId", "d1">> >>), AuthGamertagOptions(g))

\* The request of guestLogin() / loginUser(): POST /basic/auth/token.
TokenFetch(cs, store, i, grant) ==
  Fetch(cs, store, i, "POST", "/basic/auth/token", GrantBody(grant), NoOptions)

\* The request of getCurrentAccount(): GET /basic/accounts/me, auth: true.
AccountFetch(cs, store, i) ==
  Fetch(cs, store, i, "GET", "/basic/accounts/me", DataUndefined,
        Options(TRUE, UNDEF, UNDEF))

\* -------------------------------------------------------------- BeamContext

\* A createDefault() call: the promise it returned and, once the constructor
\* ran, the context. bootPath, bootGuest, bootMe, bootMeFailed record what
\* the bootstrap did: the branch taken, the guest logins and identity
\* fetches it dispatched, the identity fetches that failed. awaiting counts
\* the callers suspended in `await context.onReady`, error is what a
\* rejected promise was rejected with.
Context(core, promise, onReady, bootPath) ==
  [core |-> core, playerId |-> NullId, onReady |-> onReady, promise |-> promise,
   bootPath |-> bootPath, bootGuest |-> 0, bootMe |-> 0, bootMeFailed |-> 0,
   awaiting |-> 0, error |-> "none"]

\* The resolver of onReady negating the state of the promise.
OnReadyResolverFlips(onReady) == ~onReady

\* this._onReadyResolver?.(): the resolve function of the onReady promise.
\* It settles a pending promise and does nothing to a settled one.
OnReadyResolver(onReady) == TRUE

\* _fetchPlayerInfo() without its catch: a failed getCurrentAccount() throws.
FetchPlayerInfoRethrows(resp) == ~resp.ok

\* Whether _fetchPlayerInfo() throws for this answer: the catch swallows
\* every failure of getCurrentAccount().
FetchPlayerInfoThrows(resp) == FALSE

\* createDefault() never taking the server branch.
SkipsBootstrapNever(config) == FALSE

\* createDefault(): core['config'].mode === 'server'
SkipsBootstrap(config) == config.mode = "server"

\* createDefault() never finding a stored token.
HasAccessTokenNever(store, i) == FALSE

\* createDefault(): core.getTokens().accessToken
HasAccessToken(store, i) == Truthy(getTokens(store, i).accessToken)

\* _fetchPlayerInfo() not writing playerId.
FetchedPlayerIdKept(playerId, resp) == playerId

\* _fetchPlayerInfo() resetting playerId when the fetch fails.
FetchedPlayerIdOrNull(playerId, resp) == IF resp.ok THEN resp.id ELSE NullId

\* context.playerId after _fetchPlayerInfo() got this answer.
FetchedPlayerId(playerId, resp) == IF resp.ok THEN resp.id ELSE playerId

Init ==
  /\ globalConfig = NoConfig
  /\ cores = <<>>
  /\ tokenStore = [s \in TokenSlots |-> NoTokens]
  /\ default = 0
  /\ contexts = <<>>
  /\ tasks = EmptyBag
  /\ wire = <<>>
  /\ settled = NoOutcome

\* The getter returning null instead of throwing.
GlobalConfigThrowsNever(gc) == FALSE

\* static get globalConfig(): throws while _globalConfig is null.
GlobalConfigThrows(gc) == gc = NoConfig

\* BeamableCore.configure(config) / configureBeamable(config)
configure(config) ==
  /\ Quiet
  /\ globalConfig' = config
  /\ Dispatch(<<>>)
  /\ UNCHANGED <<cores, tokenStore, default, contexts, tasks>>

Configure == \E config \in Configs : configure(config)

\* new BeamableCore(): the instance holds BeamableCore.globalConfig; the
\* getter throws while that is null.
NewCore ==
  /\ Quiet
  /\ Len(cores) < MaxCores
  /\ ~GlobalConfigThrows(globalConfig)
  /\ cores' = Append(cores, globalConfig)
  /\ Dispatch(<<>>)
  /\ UNCHANGED <<globalConfig, tokenStore, default, contexts, tasks>>

\* new BeamableCore(config)
CoreNewCore ==
  /\ Quiet
  /\ Len(cores) < MaxCores
  /\ \E config \in CoreConfigs : cores' = Append(cores, config)
  /\ Dispatch(<<>>)
  /\ UNCHANGED <<globalConfig, tokenStore, default, contexts, tasks>>

\* core.setTokens(accessToken, refreshToken?) called on instance i
SetTokensCall(i, accessToken, refreshToken) ==
  /\ Quiet
  /\ tokenStore' = setTokens(tokenStore, i, accessToken, refreshToken)
  /\ Dispatch(<<>>)
  /\ UNCHANGED <<globalConfig, cores, default, contexts, tasks>>

SetTokens ==
  \E i \in CoreIds : SetTokensCall(i, "t1", "r1")

CoreSetTokens ==
  \E i \in CoreIds, a \in AccessTokens, r \in RefreshTokens \cup {UNDEF} :
    SetTokensCall(i, a, r)

\* core.request(method, path, data, opts) called directly on instance i,
\* with one of the requests of calls.
Call(calls) ==
  /\ Quiet
  /\ Room(tasks) >= 1
  /\ \E f \in calls :
       /\ tasks' = Start(tasks, RequestTask)
       /\ Dispatch(<<f>>)
  /\ UNCHANGED <<globalConfig, cores, tokenStore, default, contexts>>

\* StatsModule.getStats(objectId, gamertag?) and
\* StatsModule.deleteStats(objectId, keys, gamertag?) on instance i.
StatsCalls ==
  { Fetch(cores, tokenStore, i, "GET", "/object/stats/x", DataUndefined,
          Options(TRUE, UNDEF, g)) : i \in CoreIds, g \in {UNDEF, "42"} }
  \cup
  { Fetch(cores, tokenStore, i, "DELETE", "/object/stats/x/",
          DataObject(<< <<"stats", "wins">> >>), Options(TRUE, UNDEF, g)) :
      i \in CoreIds, g \in {UNDEF, "42"} }

StatsCall == Call(StatsCalls)

\* The `increments` arguments tried: maps of at most two keys whose values
\* are a number or a string.
IncrementValues == {DataNumber(1), DataString("1")}
Increments ==
  {<<>>} \cup
  { << <<"wins", v>> >> : v \in IncrementValues } \cup
  { << <<"wins", v>>, <<"losses", w>> >> :
      v \in IncrementValues, w \in IncrementValues }

\* incrementStats() sending every map unchecked.
IncrementsValidAlways(increments) == TRUE

\* incrementStats(): no key of increments has a value that is not a number.
IncrementsValid(increments) ==
  \A k \in 1 .. Len(increments) : increments[k][2].t = "number"

\* The first key the validation loop of incrementStats() stops at.
FirstInvalidKey(increments) ==
  increments[CHOOSE k \in 1 .. Len(increments) :
               /\ increments[k][2].t # "number"
               /\ \A j \in 1 .. k - 1 : increments[j][2].t = "number"][1]

\* A call that throws before it makes any request: its promise is rejected
\* with the error.
Thrown(message) ==
  Outcome([status |-> NoStatus, parseable |-> FALSE, text |-> message],
          "rejected", message)

\* The body incrementStats() builds.
IncrementStatsBody(objectId, increments, emitAnalytics) ==
  DataNested(<< <<"set", DataNested(<<>>)>>,
                <<"add", DataNested(increments)>>,
                <<"objectId", DataString(objectId)>>,
                <<"emitAnalytics", DataBoolean(emitAnalytics)>> >>)

\* gamertag ? { auth: true, gamertag } : { auth: true }
GamertagAuthOptions(gamertag) ==
  IF Truthy(gamertag) THEN Options(TRUE, UNDEF, gamertag)
  ELSE Options(TRUE, UNDEF, UNDEF)

\* StatsModule.incrementStats("x", increments, gamertag, emitAnalytics) on
\* instance i.
IncrementStatsWith(i, increments, gamertag, emitAnalytics) ==
  /\ Quiet
  /\ IF IncrementsValid(increments)
     THEN /\ Room(tasks) >= 1
          /\ tasks' = Start(tasks, RequestTask)
          /\ Dispatch(<<Fetch(cores, tokenStore, i, "POST", "/object/stats/x",
                              IncrementStatsBody("x", increments, emitAnalytics),
                              GamertagAuthOptions(gamertag))>>)
     ELSE /\ tasks' = tasks
          /\ wire' = <<>>
          /\ settled' = CalledAs("incrementStats",
                               Thrown("incrementStats: Value for '"
                                      \o FirstInvalidKey(increments)
                                      \o "' must be a number"))
  /\ UNCHANGED <<globalConfig, cores, tokenStore, default, contexts>>

IncrementStats ==
  \E i \in CoreIds, increments \in Increments, g \in Gamertags, e \in BOOLEAN :
    IncrementStatsWith(i, increments, g, e)

\* InventoryModule.getInventory("42") on instance i, called with a further
\* argument, which the method does not declare.
GetInventoryWith(i, gamertag) ==
  Call({Fetch(cores, tokenStore, i, "GET", "/object/inventory/42/",
              DataUndefined, Options(TRUE, UNDEF, UNDEF))})

GetInventory == \E i \in CoreIds, g \in Gamertags : GetInventoryWith(i, g)

\* ContentModule.getPublicManifest() on instance i, called with an
\* argument, which the method does not declare.
GetPublicManifestWith(i, gamertag) ==
  Call({Fetch(cores, tokenStore, i, "GET",
              "/basic/content/manifest/public/json", DataUndefined, NoOptions)})

GetPublicManifest ==
  \E i \in CoreIds, g \in Gamertags : GetPublicManifestWith(i, g)

\* StatsModule.getStats("x", gamertag) on instance i.
GetStatsWith(i, gamertag) ==
  Call({Fetch(cores, tokenStore, i, "GET", "/object/stats/x", DataUndefined,
              GamertagAuthOptions(gamertag))})

GetStats == \E i \in CoreIds, g \in Gamertags : GetStatsWith(i, g)

\* core.request(...) and core.requestMicroservice(...) with every
\* combination of the inputs.
CoreRequests ==
  { Fetch(cores, tokenStore, i, method, path, data, Options(auth, ms, g)) :
      i \in CoreIds, method \in Methods, path \in Paths, data \in Datas,
      auth \in BOOLEAN, ms \in Microservices, g \in Gamertags }
  \cup
  { MicroserviceFetch(cores, tokenStore, i, method, "Chat", path, data,
                      Options(auth, UNDEF, g)) :
      i \in CoreIds, method \in Methods, path \in Paths, data \in Datas,
      auth \in BOOLEAN, g \in Gamertags }

CoreRequest == Call(CoreRequests)

\* The constructor of BeamableCore throws (globalConfig is null): the
\* promise of createDefault() is rejected and no context exists.
CreateDefaultNotConfigured ==
  /\ GlobalConfigThrows(globalConfig)
  /\ contexts' = Append(contexts,
       [Context(0, "rejected", FALSE, "none") EXCEPT !.error = "NotConfigured"])
  /\ Dispatch(<<>>)
  /\ UNCHANGED <<cores, tokenStore, tasks>>

\* Server mode returning the context without calling the resolver.
CreateDefaultServerUnresolved ==
  /\ ~GlobalConfigThrows(globalConfig)
  /\ SkipsBootstrap(globalConfig)
  /\ Len(cores) < MaxCores
  /\ cores' = Append(cores, globalConfig)
  /\ contexts' = Append(contexts, Context(Len(cores) + 1, "resolved", FALSE, "server"))
  /\ Dispatch(<<>>)
  /\ UNCHANGED <<tokenStore, tasks>>

\* Server mode: resolve onReady and return the context.
CreateDefaultServer ==
  /\ ~GlobalConfigThrows(globalConfig)
  /\ SkipsBootstrap(globalConfig)
  /\ Len(cores) < MaxCores
  /\ cores' = Append(cores, globalConfig)
  /\ contexts' = Append(contexts, Context(Len(cores) + 1, "resolved", OnReadyResolver(FALSE), "server"))
  /\ Dispatch(<<>>)
  /\ UNCHANGED <<tokenStore, tasks>>

\* An access token is already stored: await _fetchPlayerInfo().
CreateDefaultWithToken ==
  /\ ~GlobalConfigThrows(globalConfig)
  /\ ~SkipsBootstrap(globalConfig)
  /\ Len(cores) < MaxCores
  /\ Room(tasks) >= 1
  /\ LET cs == Append(cores, globalConfig)
         i == Len(cs)
         f == AccountFetch(cs, tokenStore, i)
     IN /\ HasAccessToken(tokenStore, i)
        /\ cores' = cs
        /\ contexts' = Append(contexts,
             [Context(i, "pending", FALSE, "token") EXCEPT !.bootMe = 1])
        /\ tasks' = Start(tasks, Task("createDefault", Len(contexts) + 1, "me", f, TRUE))
        /\ Dispatch(<<f>>)
  /\ UNCHANGED tokenStore

\* No access token: await context.Auth.guestLogin().
CreateDefaultGuest ==
  /\ ~GlobalConfigThrows(globalConfig)
  /\ ~SkipsBootstrap(globalConfig)
  /\ Len(cores) < MaxCores
  /\ Room(tasks) >= 2
  /\ LET cs == Append(cores, globalConfig)
         i == Len(cs)
         f == TokenFetch(cs, tokenStore, i, "guest")
     IN /\ ~HasAccessToken(tokenStore, i)
        /\ cores' = cs
        /\ contexts' = Append(contexts,
             [Context(i, "pending", FALSE, "guest") EXCEPT !.bootGuest = 1])
        /\ tasks' = Start(tasks, Task("createDefault", Len(contexts) + 1, "token", f, TRUE))
        /\ Dispatch(<<f>>)
  /\ UNCHANGED tokenStore

\* BeamContext.createDefault(), up to its first await
createDefault ==
  \/ CreateDefaultNotConfigured
  \/ CreateDefaultServer
  \/ CreateDefaultWithToken
  \/ CreateDefaultGuest

\* The getter finding no memoized promise at any access.
MemoizedNever(d) == FALSE

\* The getter forgetting a construction that failed.
MemoizedUnlessRejected(d) == d # 0 /\ contexts[d].promise # "rejected"

\* The getter of BeamContext.Default: `this._default` is set.
Memoized(d) == d # 0

\* The getter BeamContext.Default: the first access calls createDefault()
\* and memoizes its promise, a later one returns the memoized promise.
Default ==
  /\ Quiet
  /\ IF ~Memoized(default)
     THEN /\ default' = Len(contexts) + 1
          /\ createDefault
     ELSE /\ Dispatch(<<>>)
          /\ UNCHANGED <<cores, tokenStore, default, contexts, tasks>>
  /\ UNCHANGED globalConfig

\* Clearing the reference and resetting the session it referred to.
ClearDefaultResets ==
  /\ Quiet
  /\ Memoized(default)
  /\ Len(contexts) < MaxCores
  /\ default' = 0
  /\ contexts' = [contexts EXCEPT ![default].onReady = FALSE,
                                  ![default].playerId = NullId]
  /\ Dispatch(<<>>)
  /\ UNCHANGED <<globalConfig, cores, tokenStore, tasks>>

\* BeamContext._default = null, as tests do to get a fresh singleton. At
\* most MaxCores sessions are constructed.
ClearDefault ==
  /\ Quiet
  /\ Memoized(default)
  /\ Len(contexts) < MaxCores
  /\ default' = 0
  /\ Dispatch(<<>>)
  /\ UNCHANGED <<globalConfig, cores, tokenStore, contexts, tasks>>

\* The contexts a caller holds: those whose createDefault() promise resolved.
Held == {c \in 1 .. Len(contexts) : contexts[c].promise = "resolved"}

\* A login method of an AuthModule, up to its await: the AuthModule of a
\* held context (context.Auth), or one built on instance i without a
\* context (new AuthModule(core)); gamertag argument from gs.
LoginWith(ops, gs) ==
  /\ Quiet
  /\ Room(tasks) >= 1
  /\ \E op \in ops, g \in gs :
       \/ \E c \in Held :
            LET f == LoginFetch(cores, tokenStore, contexts[c].core, op, g)
            IN /\ tasks' = Start(tasks, Task(op, c, "token", f, FALSE))
               /\ Dispatch(<<f>>)
       \/ \E i \in CoreIds :
            LET f == LoginFetch(cores, tokenStore, i, op, g)
            IN /\ tasks' = Start(tasks, Task(op, 0, "token", f, FALSE))
               /\ Dispatch(<<f>>)
  /\ UNCHANGED <<globalConfig, cores, tokenStore, default, contexts>>

\* loginUser(usernameOrEmail, password)
Login == LoginWith({"loginUser"}, {UNDEF})

\* Every login method of AuthModule.
AuthLogin == LoginWith(LoginOps, Gamertags)

\* Every other method of the AuthModule of a held context, up to its await.
AuthOther ==
  /\ Quiet
  /\ Room(tasks) >= 1
  /\ \E op \in OtherOps, g \in Gamertags, c \in Held :
       LET f == OtherFetch(cores, tokenStore, contexts[c].core, op, g)
       IN /\ tasks' = Start(tasks, Task(op, c, "any", f, FALSE))
          /\ Dispatch(<<f>>)
  /\ UNCHANGED <<globalConfig, cores, tokenStore, default, contexts>>

\* `await context.onReady` by a caller holding context c: the caller is
\* suspended, also when the promise is already resolved.
AwaitOnReady ==
  /\ Quiet
  /\ \E c \in Held :
       /\ contexts[c].awaiting < MaxAwaiters
       /\ contexts' = [contexts EXCEPT ![c].awaiting = @ + 1]
  /\ Dispatch(<<>>)
  /\ UNCHANGED <<globalConfig, cores, tokenStore, default, tasks>>

\* A caller suspended in `await context.onReady` resumes: the promise is
\* resolved.
ResumeOnReady ==
  /\ Quiet
  /\ \E c \in 1 .. Len(contexts) :
       /\ contexts[c].awaiting > 0
       /\ contexts[c].onReady
       /\ contexts' = [contexts EXCEPT ![c].awaiting = @ - 1]
  /\ Dispatch(<<>>)
  /\ UNCHANGED <<globalConfig, cores, tokenStore, default, tasks>>

\* request() calling fetch() again when the first attempt failed.
RespondRequestRetries(task) ==
  /\ task.kind = "request" \/ task.kind \in OtherOps
  /\ \E resp \in Responses(task) :
       IF resp.ok
       THEN /\ tasks' = Finish(tasks, task)
            /\ Dispatch(<<>>)
       ELSE /\ tasks' = tasks
            /\ \E f \in CoreRequests : Dispatch(<<f>>)
  /\ UNCHANGED <<globalConfig, cores, tokenStore, default, contexts>>

\* request() storing the tokens of a 2xx answer.
RespondRequestStoresTokens(task) ==
  /\ task.kind = "request" \/ task.kind \in OtherOps
  /\ \E resp \in Responses(task) :
       /\ tasks' = Finish(tasks, task)
       /\ Dispatch(<<>>)
       /\ tokenStore' = IF resp.ok
                        THEN setTokens(tokenStore, task.core, resp.access_token,
                                       resp.refresh_token)
                        ELSE tokenStore
  /\ UNCHANGED <<globalConfig, cores, default, contexts>>

\* request(): the awaited fetch() settles; the caller gets the parsed body
\* or the error.
RespondRequest(task) ==
  /\ task.kind = "request" \/ task.kind \in OtherOps
  /\ \E resp \in Responses(task) :
       /\ tasks' = Finish(tasks, task)
       /\ wire' = <<>>
       /\ settled' = requestOutcome(resp)
  /\ UNCHANGED <<globalConfig, cores, tokenStore, default, contexts>>

\* refreshToken() returning without calling the hook.
TriggersHookNotRefresh(op) == op \in LoginOps \ {"refreshToken"}

\* The methods that end with this.context?._resolveOnReady().
TriggersHook(op) == op \in LoginOps

\* A login method catching the failure of its request and going on.
RespondLoginSwallows(task, resp) ==
  /\ LET c == task.ctx
         i == task.core
         store == setTokens(tokenStore, i, resp.access_token, resp.refresh_token)
         f == AccountFetch(cores, store, i)
     IN /\ tokenStore' = store
        /\ IF c = 0 \/ ~TriggersHook(task.kind)
           THEN /\ tasks' = Finish(tasks, task)
                /\ wire' = <<>>
           ELSE /\ tasks' = Start(Finish(tasks, task),
                                  Task("_resolveOnReady", c, "me", f, FALSE))
                /\ wire' = <<f>>
  /\ settled' = CalledAs(task.kind, Outcome(resp, "resolved", resp.text))
  /\ UNCHANGED <<globalConfig, cores, default, contexts>>

\* A login method starting the hook before it stores the tokens.
RespondLoginHooksFirst(task, resp) ==
  /\ LET c == task.ctx
         i == task.core
         store == setTokens(tokenStore, i, resp.access_token, resp.refresh_token)
         f == AccountFetch(cores, tokenStore, i)
     IN IF ~resp.ok
        THEN /\ tasks' = Finish(tasks, task)
             /\ wire' = <<>>
             /\ UNCHANGED tokenStore
        ELSE /\ tokenStore' = store
             /\ IF c = 0 \/ ~TriggersHook(task.kind)
                THEN /\ tasks' = Finish(tasks, task)
                     /\ wire' = <<>>
                ELSE /\ tasks' = Start(Finish(tasks, task),
                                       Task("_resolveOnReady", c, "me", f, FALSE))
                     /\ wire' = <<f>>
  /\ settled' = CalledAs(task.kind, requestOutcome(resp))
  /\ UNCHANGED <<globalConfig, cores, default, contexts>>

\* A login method after `await this.core.request(...)` got resp: setTokens,
\* then this.context?._resolveOnReady(), which runs up to the fetch() of
\* getCurrentAccount() and is not awaited. A failed request throws.
RespondLoginWith(task, resp) ==
  /\ LET c == task.ctx
         i == task.core
         store == setTokens(tokenStore, i, resp.access_token, resp.refresh_token)
         f == AccountFetch(cores, store, i)
     IN IF ~resp.ok
        THEN /\ tasks' = Finish(tasks, task)
             /\ wire' = <<>>
             /\ UNCHANGED tokenStore
        ELSE /\ tokenStore' = store
             /\ IF c = 0 \/ ~TriggersHook(task.kind)
                THEN /\ tasks' = Finish(tasks, task)
                     /\ wire' = <<>>
                ELSE /\ tasks' = Start(Finish(tasks, task),
                                       Task("_resolveOnReady", c, "me", f, FALSE))
                     /\ wire' = <<f>>
  /\ settled' = CalledAs(task.kind, requestOutcome(resp))
  /\ UNCHANGED <<globalConfig, cores, default, contexts>>

RespondLogin(task) ==
  /\ task.kind \in LoginOps
  /\ \E resp \in Responses(task) : RespondLoginWith(task, resp)

\* _resolveOnReady() after `await this._fetchPlayerInfo()`: the resolver.
RespondResolveOnReady(task) ==
  /\ task.kind = "_resolveOnReady"
  /\ \E resp \in Responses(task) :
       contexts' = [contexts EXCEPT ![task.ctx] =
         [@ EXCEPT !.playerId = FetchedPlayerId(@, resp),
                   !.onReady = IF FetchPlayerInfoThrows(resp) THEN @
                               ELSE OnReadyResolver(@),
                   !.bootMeFailed = IF task.boot /\ ~resp.ok THEN @ + 1 ELSE @]]
  /\ tasks' = Finish(tasks, task)
  /\ Dispatch(<<>>)
  /\ UNCHANGED <<globalConfig, cores, tokenStore, default>>

\* createDefault() after `await context.Auth.guestLogin()`: guestLogin
\* stored the tokens and started _resolveOnReady() (one identity fetch),
\* then createDefault calls _fetchPlayerInfo() itself (another one). A
\* failed guest login rejects the promise of createDefault().
RespondGuestLogin(task) ==
  /\ task.kind = "createDefault"
  /\ task.awaits = "token"
  /\ \E resp \in Responses(task) :
       LET c == task.ctx
           i == task.core
           store == setTokens(tokenStore, i, resp.access_token, resp.refresh_token)
           f == AccountFetch(cores, store, i)
       IN IF ~resp.ok
          THEN /\ contexts' = [contexts EXCEPT ![c].promise = "rejected",
                                               ![c].error = "request failed"]
               /\ tasks' = Finish(tasks, task)
               /\ Dispatch(<<>>)
               /\ UNCHANGED tokenStore
          ELSE /\ tokenStore' = store
               /\ contexts' = [contexts EXCEPT ![c].bootMe = @ + 2]
               /\ tasks' = Start(Start(Finish(tasks, task),
                                       Task("_resolveOnReady", c, "me", f, TRUE)),
                                 Task("createDefault", c, "me", f, TRUE))
               /\ Dispatch(<<f, f>>)
  /\ UNCHANGED <<globalConfig, cores, default>>

\* createDefault() after `await context._fetchPlayerInfo()`: the resolver,
\* then `return context`.
RespondFetchPlayerInfo(task) ==
  /\ task.kind = "createDefault"
  /\ task.awaits = "me"
  /\ \E resp \in Responses(task) :
       contexts' = [contexts EXCEPT ![task.ctx] =
         [@ EXCEPT !.playerId = FetchedPlayerId(@, resp),
                   !.onReady = IF FetchPlayerInfoThrows(resp) THEN @
                               ELSE OnReadyResolver(@),
                   !.promise = IF FetchPlayerInfoThrows(resp) THEN "rejected"
                               ELSE "resolved",
                   !.bootMeFailed = IF ~resp.ok THEN @ + 1 ELSE @]]
  /\ tasks' = Finish(tasks, task)
  /\ Dispatch(<<>>)
  /\ UNCHANGED <<globalConfig, cores, tokenStore, default>>

Respond ==
  \E task \in Running(tasks) :
    /\ Quiet
    /\ \/ RespondRequest(task)
       \/ RespondLogin(task)
       \/ RespondResolveOnReady(task)
       \/ RespondGuestLogin(task)
       \/ RespondFetchPlayerInfo(task)

\* The transport takes the fetch() calls of the handler that just ran, the
\* caller the outcome of its call.
Transmit ==
  /\ ~Quiet
  /\ Dispatch(<<>>)
  /\ UNCHANGED <<globalConfig, cores, tokenStore, default, contexts, tasks>>

Next ==
  \/ Configure
  \/ NewCore
  \/ SetTokens
  \/ StatsCall
  \/ Default
  \/ Login
  \/ Respond
  \/ Transmit

Spec == Init /\ [][Next]_vars

\* A request of the bootstrap is answered.
BootRespond ==
  \E task \in Running(tasks) :
    /\ task.boot
    /\ Quiet
    /\ \/ RespondResolveOnReady(task)
       \/ RespondGuestLogin(task)
       \/ RespondFetchPlayerInfo(task)

\* The session when every fetch() call is taken by the transport and every
\* request of the bootstrap is eventually answered, successfully or not.
FairSpec == Spec /\ WF_vars(Transmit) /\ SF_vars(BootRespond)

\* BeamableCore on its own: no BeamContext, every input of request().
CoreRespond == \E task \in Running(tasks) : Quiet /\ RespondRequest(task)

CoreNext ==
  \/ CoreNewCore
  \/ CoreSetTokens
  \/ CoreRequest
  \/ CoreRespond
  \/ Transmit

CoreSpec == Init /\ [][CoreNext]_vars

\* The singleton and every method of its Auth facade.
AuthNext ==
  \/ Configure
  \/ Default
  \/ AuthLogin
  \/ AuthOther
  \/ Respond
  \/ Transmit

AuthSpec == Init /\ [][AuthNext]_vars

\* The singleton with callers awaiting onReady while logins go on.
ReadyNext ==
  \/ Configure
  \/ Default
  \/ Login
  \/ AwaitOnReady
  \/ ResumeOnReady
  \/ Respond
  \/ Transmit

ReadySpec == Init /\ [][ReadyNext]_vars

\* The singleton cleared and accessed again, as tests do.
ClearRespond ==
  \E task \in Running(tasks) :
    /\ Quiet
    /\ \/ RespondRequest(task)
       \/ RespondResolveOnReady(task)
       \/ RespondGuestLogin(task)
       \/ RespondFetchPlayerInfo(task)

ClearNext ==
  \/ Configure
  \/ Default
  \/ ClearDefault
  \/ GetStats
  \/ ClearRespond
  \/ Transmit

ClearSpec == Init /\ [][ClearNext]_vars

\* The facades of a core: Stats, Inventory and Content.
FacadeNext ==
  \/ CoreNewCore
  \/ SetTokens
  \/ GetStats
  \/ IncrementStats
  \/ GetInventory
  \/ GetPublicManifest
  \/ CoreRespond
  \/ Transmit

FacadeSpec == Init /\ [][FacadeNext]_vars

\* ------------------------------------------------------------------ claims

\* The fetch() calls of the handler that just ran.
Sent == {wire[k] : k \in 1 .. Len(wire)}
ConfigOf(f) == cores[f.core]
\* The access token in credential state when f was dispatched (the state
\* holds it until the transport takes f).
TokenAt(f) == getTokens(tokenStore, f.core).accessToken

\* C1: credential state is shared: in every state all instances read the
\* same token pair, and setTokens(a, r) on one instance makes getTokens()
\* on every instance return a and r.
C1_AllSeeSamePair ==
  \A i \in CoreIds, j \in CoreIds : getTokens(tokenStore, i) = getTokens(tokenStore, j)
C1_SetIsSeenByAll ==
  \A i \in CoreIds, a \in AccessTokens, r \in RefreshTokens :
    SetTokensCall(i, a, r) =>
      \A j \in 1 .. Len(cores') :
        getTokens(tokenStore', j) = [accessToken |-> a, refreshToken |-> r]
C1_SharedCredentialState == [](C1_AllSeeSamePair) /\ [][C1_SetIsSeenByAll]_vars
C1_Witness ==
  /\ Len(cores) = 2
  /\ cores[1] # cores[2]
  /\ getTokens(tokenStore, 1) = [accessToken |-> "t2", refreshToken |-> "r1"]
  /\ getTokens(tokenStore, 2) = [accessToken |-> "t2", refreshToken |-> "r1"]

\* C2: every request dispatched by an instance whose mode is server carries
\* the signature header.
C2_ServerRequestsSigned ==
  \A f \in Sent : ConfigOf(f).mode = "server" => f.sent.headers.Signature.present

\* C3: a request carries Authorization iff the mode is not server, auth is
\* set and the access token is non-null; its value is then 'Bearer ' and the
\* token held at dispatch. A server-mode request never carries it.
C3_AuthorizationIffClientAuthToken ==
  \A f \in Sent :
    /\ f.sent.headers.Authorization # ABSENT
         <=> (ConfigOf(f).mode # "server" /\ f.opts.auth /\ TokenAt(f) # NULL)
    /\ f.sent.headers.Authorization # ABSENT
         => f.sent.headers.Authorization = "Bearer " \o TokenAt(f)
    /\ ConfigOf(f).mode = "server" => f.sent.headers.Authorization = ABSENT
C3_Witness ==
  \E f \in Sent :
    /\ ConfigOf(f).mode = "client" /\ f.opts.auth /\ TokenAt(f) = "t2"
    /\ f.sent.headers.Authorization = "Bearer t2"

\* C4: a request carries X-BEAM-GAMERTAG exactly when the gamertag option is
\* set, in either mode, with the supplied value; in server mode with
\* gamertag "42" it carries X-BEAM-GAMERTAG: 42 and no Authorization, even
\* with a token stored.
C4_GamertagIffOption ==
  \A f \in Sent :
    /\ f.sent.headers.Gamertag # ABSENT <=> f.opts.gamertag # UNDEF
    /\ f.opts.gamertag # UNDEF => f.sent.headers.Gamertag = f.opts.gamertag
    /\ (ConfigOf(f).mode = "server" /\ f.opts.gamertag = "42")
         => /\ f.sent.headers.Gamertag = "42"
            /\ f.sent.headers.Authorization = ABSENT
C4_Witness ==
  /\ \E f \in Sent : /\ ConfigOf(f).mode = "server" /\ f.opts.gamertag = "42"
                     /\ f.opts.auth /\ TokenAt(f) = "t1"
                     /\ f.sent.headers.Gamertag = "42"
  /\ Len(cores) = 2 /\ cores[1].mode # "server" /\ cores[2].mode = "server"

\* C5: the signature of a DELETE request does not depend on the body
\* (sign(path, b, DELETE) = sign(path, undefined, DELETE)); for every other
\* method a body changes the signed string.
C5_DeleteSignatureIgnoresBody ==
  \A f \in Sent :
    f.sent.headers.Signature.present =>
      IF f.method = "DELETE"
      THEN f.sent.headers.Signature =
             calculateSignature(ConfigOf(f), f.path, DataUndefined, "DELETE")
      ELSE TruthyData(f.data) =>
             f.sent.headers.Signature #
               calculateSignature(ConfigOf(f), f.path, DataUndefined, f.method)
C5_Witness ==
  \E f \in Sent :
    /\ f.method = "DELETE" /\ f.data = DataObject(<< <<"stats", "wins">> >>)
    /\ f.sent.headers.Signature = Base64MD5("s3cr3tp11/object/stats/x")

\* C6: a GET request never has a body, whatever data is passed; with any
\* other method a supplied body is sent as its JSON serialization.
C6_GetHasNoBody ==
  \A f \in Sent :
    /\ f.method = "GET" => f.sent.body = ABSENT
    /\ (f.method # "GET" /\ TruthyData(f.data)) => f.sent.body = JSONStringify(f.data)
C6_Witness ==
  \E f \in Sent :
    f.method = "GET" /\ f.data = DataObject(<< <<"stats", "wins">> >>) /\ f.sent.body = ABSENT

\* The createDefault() calls made so far.
ContextIds == 1 .. Len(contexts)
\* The step is the first access to BeamContext.Default.
FirstAccess == default = 0 /\ default' # 0

\* C7: in server mode the first access to the singleton reaches Ready (the
\* promise and onReady are resolved) without any request: no guest login,
\* no identity fetch; playerId is null at that point.
C7_ServerNoRequests ==
  \A c \in ContextIds :
    (contexts[c].core # 0 /\ cores[contexts[c].core].mode = "server") =>
      /\ contexts[c].promise = "resolved" /\ contexts[c].onReady
      /\ contexts[c].bootGuest = 0 /\ contexts[c].bootMe = 0
      /\ \A task \in Running(tasks) : task.ctx = c => ~task.boot
C7_ServerFirstAccess ==
  (FirstAccess /\ globalConfig.mode = "server") =>
    /\ wire' = <<>> /\ tasks' = tasks
    /\ contexts'[default'].promise = "resolved" /\ contexts'[default'].onReady
    /\ contexts'[default'].playerId = NullId
C7_ServerBootstrap == [](C7_ServerNoRequests) /\ [][C7_ServerFirstAccess]_vars
C7_Witness ==
  /\ default # 0 /\ contexts[default].promise = "resolved"
  /\ cores[contexts[default].core].mode = "server"
  /\ tokenStore[0].accessToken = NULL

\* C8: in client mode with no token stored, the bootstrap issues the guest
\* login exactly once, then the identity fetch exactly once, and only then
\* resolves readiness.
C8_OneGuestLoginOneIdentityFetch ==
  \A c \in ContextIds :
    contexts[c].bootPath = "guest" =>
      /\ contexts[c].bootGuest = 1
      /\ contexts[c].bootMe <= 1
      /\ contexts[c].onReady => contexts[c].bootMe = 1

\* C9: a failed identity fetch of the bootstrap is not fatal: it never
\* rejects the promise of the accessor and never writes playerId, and once
\* every identity fetch of the bootstrap has failed the promise and onReady
\* are resolved.
C9_FailedFetchesStillReady ==
  \A c \in ContextIds :
    /\ contexts[c].promise = "rejected" => contexts[c].bootMeFailed = 0
    /\ (contexts[c].bootMe > 0 /\ contexts[c].bootMeFailed = contexts[c].bootMe) =>
         contexts[c].promise = "resolved" /\ contexts[c].onReady
C9_FailedFetchKeepsIdentity ==
  \A c \in ContextIds :
    contexts'[c].bootMeFailed > contexts[c].bootMeFailed =>
      /\ contexts'[c].playerId = contexts[c].playerId
      /\ contexts'[c].promise # "rejected"
C9_IdentityFetchFailureNotFatal ==
  [](C9_FailedFetchesStillReady) /\ [][C9_FailedFetchKeepsIdentity]_vars
C9_Witness ==
  \E c \in ContextIds :
    /\ contexts[c].bootMe = 2 /\ contexts[c].bootMeFailed = 2
    /\ contexts[c].promise = "resolved" /\ contexts[c].onReady
    /\ contexts[c].playerId = NullId

\* C10: with an access token already stored at the first access in client
\* mode, the bootstrap issues no guest login: it dispatches the identity
\* fetch with the stored token, then resolves readiness, and leaves the
\* stored tokens as they are.
C10_TokenFirstAccess ==
  \A i \in CoreIds :
    (FirstAccess /\ globalConfig.mode \notin {"server", NULL}
       /\ getTokens(tokenStore, i).accessToken # NULL) =>
      /\ tokenStore' = tokenStore
      /\ Len(wire') = 1
      /\ wire'[1].sent.method = "GET"
      /\ wire'[1].sent.url = ApiUrl \o "/basic/accounts/me"
      /\ wire'[1].sent.headers.Authorization =
           "Bearer " \o getTokens(tokenStore, i).accessToken
      /\ contexts'[default'].bootGuest = 0
C10_TokenBootstrapCompletes ==
  \A c \in ContextIds :
    (contexts[c].bootPath = "token" /\ contexts[c].promise = "pending"
       /\ contexts'[c].promise # "pending") =>
      /\ tokenStore' = tokenStore
      /\ contexts'[c].promise = "resolved" /\ contexts'[c].onReady
C10_TokenNoGuestLogin ==
  \A c \in ContextIds :
    contexts[c].bootPath = "token" =>
      /\ contexts[c].bootGuest = 0 /\ contexts[c].bootMe = 1
      /\ contexts[c].onReady <=> contexts[c].promise = "resolved"
C10_ExistingTokenSkipsGuestLogin ==
  /\ [](C10_TokenNoGuestLogin)
  /\ [][C10_TokenFirstAccess /\ C10_TokenBootstrapCompletes]_vars
C10_Witness ==
  \E c \in ContextIds :
    /\ contexts[c].bootPath = "token" /\ contexts[c].promise = "resolved"
    /\ contexts[c].playerId = 2 /\ tokenStore[0].accessToken = "t2"

\* C11: onReady of a context resolves exactly once: once resolved it stays
\* resolved in every later step (the bootstrap and every later login hook
\* call the resolver again to no effect), a caller awaiting it is never
\* left on a pending promise, and every awaiting caller resumes on the
\* resolved promise.
C11_ResolvedStaysResolved ==
  \A c \in ContextIds : contexts[c].onReady => contexts'[c].onReady
C11_AwaitersResumeResolved ==
  \A c \in ContextIds :
    contexts'[c].awaiting < contexts[c].awaiting =>
      contexts[c].onReady /\ contexts'[c].onReady
C11_AwaitersSeeResolved ==
  \A c \in ContextIds : contexts[c].awaiting > 0 => contexts[c].onReady
C11_ReadyResolvesOnce ==
  /\ [](C11_AwaitersSeeResolved)
  /\ [][C11_ResolvedStaysResolved /\ C11_AwaitersResumeResolved]_vars
C11_Witness ==
  \E c \in ContextIds :
    /\ contexts[c].awaiting = 2 /\ contexts[c].onReady
    /\ contexts[c].bootMe = 2
    /\ \E task \in Running(tasks) :
         task.kind = "_resolveOnReady" /\ task.ctx = c /\ ~task.boot

\* C12: the accessor is memoized: once BeamContext.Default has been
\* accessed, every later access, also while the first construction is
\* still pending, returns the same construction and starts nothing; the
\* bootstrap runs at most once, with at most one guest login request.
C12_SameConstruction ==
  default # 0 =>
    /\ default' = default
    /\ Len(contexts') = Len(contexts)
C12_OneBootstrap ==
  /\ Len(contexts) <= 1
  /\ default # 0 <=> Len(contexts) = 1
  /\ \A c \in ContextIds : contexts[c].bootGuest <= 1
C12_AccessorMemoized == [](C12_OneBootstrap) /\ [][C12_SameConstruction]_vars
C12_Witness ==
  /\ default # 0 /\ contexts[default].promise = "pending"
  /\ contexts[default].bootGuest = 1
  /\ Quiet /\ tasks # EmptyBag

\* The context was built in client mode.
ClientContext(c) ==
  contexts[c].core # 0 /\ cores[contexts[c].core].mode # "server"

\* C13: in client mode, when the requests of the bootstrap succeed, playerId
\* is set at the moment onReady resolves: the step that resolves onReady
\* writes the id the identity fetch returned for the access token it
\* carried (the stored one at dispatch), and a resolved onReady with no
\* failed bootstrap fetch comes with a non-null playerId.
C13_ResolvedWithIdentity ==
  \A c \in ContextIds :
    (ClientContext(c) /\ contexts[c].onReady /\ contexts[c].bootMeFailed = 0) =>
      contexts[c].playerId # NullId
C13_ResolvingWritesIdentity ==
  \A c \in ContextIds :
    (ClientContext(c) /\ ~contexts[c].onReady /\ contexts'[c].onReady
       /\ contexts'[c].bootMeFailed = 0) =>
      \E task \in Running(tasks), a \in AccessTokens :
        /\ task.ctx = c /\ task.boot /\ task.awaits = "me"
        /\ task.auth = "Bearer " \o a
        /\ contexts'[c].playerId = AccountOf(a)
C13_IdentitySetWhenReady ==
  [](C13_ResolvedWithIdentity) /\ [][C13_ResolvingWritesIdentity]_vars
C13_Witness ==
  \E c \in ContextIds :
    /\ contexts[c].bootPath = "guest" /\ contexts[c].promise = "resolved"
    /\ contexts[c].onReady /\ contexts[c].bootMeFailed = 0
    /\ contexts[c].playerId = 2 /\ tokenStore[0].accessToken = "t2"

\* C14: on a Ready client-mode context, once a login through context.Auth
\* has completed successfully, playerId is the id of the account that login
\* obtained. The login has completed from the step that stores its tokens
\* and starts its _resolveOnReady() call chain, which carries the new token.
C14_IdentityIsNewAccount ==
  \A task \in Running(tasks) :
    (task.kind = "_resolveOnReady" /\ ~task.boot /\ ClientContext(task.ctx)) =>
      \E a \in AccessTokens :
        /\ task.auth = "Bearer " \o a
        /\ contexts[task.ctx].playerId = AccountOf(a)

\* The _resolveOnReady() call chains alive.
HookCount(ts) ==
  BagCardinality([task \in {u \in Running(ts) : u.kind = "_resolveOnReady"} |-> ts[task]])

\* C15: every login method called through context.Auth that succeeds stores
\* the token pair of the response and then triggers the hook (the identity
\* fetch that carries the new token is dispatched and _resolveOnReady is
\* pending); the hook is started by nothing but a login, so the other
\* methods of AuthModule never trigger it, nor change the tokens.
C15_LoginStoresThenHooks ==
  \A task \in Running(tasks) :
    \A resp \in Responses(task) :
      (task.kind \in LoginOps /\ task.ctx # 0 /\ resp.ok
         /\ RespondLoginWith(task, resp)) =>
        /\ getTokens(tokenStore', task.core) =
             [accessToken |-> resp.access_token, refreshToken |-> resp.refresh_token]
        /\ HookCount(tasks') = HookCount(tasks) + 1
        /\ Len(wire') = 1
        /\ wire'[1].sent.url = ApiUrl \o "/basic/accounts/me"
        /\ wire'[1].sent.headers.Authorization \in
             {"Bearer " \o resp.access_token, ABSENT}
        /\ wire'[1].sent.headers.Authorization = ABSENT <=> ~ClientContext(task.ctx)
C15_OnlyLoginsHook ==
  /\ HookCount(tasks') > HookCount(tasks) =>
       \E task \in Running(tasks) :
         /\ task.kind \in LoginOps \/ (task.kind = "createDefault" /\ task.awaits = "token")
         /\ CopiesIn(task, tasks') < CopiesIn(task, tasks)
  /\ \A task \in Running(tasks) :
       (task.kind \in OtherOps /\ CopiesIn(task, tasks') < CopiesIn(task, tasks)) =>
         /\ tokenStore' = tokenStore /\ contexts' = contexts
         /\ wire' = <<>> /\ HookCount(tasks') = HookCount(tasks)
C15_LoginStyleTriggersHook ==
  [][C15_LoginStoresThenHooks /\ C15_OnlyLoginsHook]_vars
C15_Witness ==
  /\ \E task \in Running(tasks) :
       /\ task.kind = "_resolveOnReady" /\ ~task.boot /\ task.auth = "Bearer t2"
  /\ \E task \in Running(tasks) : task.kind = "updateAccount"
  /\ tokenStore[0] = [accessToken |-> "t2", refreshToken |-> "r2"]

\* C16: while no global configuration is set, no BeamableCore is built
\* without an explicit config, and the first access to the singleton fails
\* with the NotConfigured error: its promise is rejected with it, no
\* instance, no context, no pending call and no request come of it.
C16_NoCoreWithoutConfig ==
  /\ \A i \in CoreIds : cores[i] # NoConfig
  /\ \A c \in ContextIds :
       contexts[c].error = "NotConfigured" =>
         /\ contexts[c].promise = "rejected" /\ contexts[c].core = 0
         /\ ~contexts[c].onReady
         /\ contexts[c].bootGuest = 0 /\ contexts[c].bootMe = 0
C16_UnconfiguredUseFails ==
  globalConfig = NoConfig =>
    /\ cores' = cores
    /\ wire' = <<>> /\ tasks' = tasks
    /\ FirstAccess =>
         /\ contexts'[default'].promise = "rejected"
         /\ contexts'[default'].error = "NotConfigured"
C16_NotConfigured == [](C16_NoCoreWithoutConfig) /\ [][C16_UnconfiguredUseFails]_vars
C16_Witness ==
  /\ default # 0
  /\ contexts[default].promise = "rejected"
  /\ contexts[default].error = "NotConfigured"
  /\ cores = <<>> /\ tasks = EmptyBag

\* C17: once the singleton session has been created, the global
\* configuration and the configuration the singleton's core holds are the
\* same in every later state, whatever is called, configure included.
C17_ConfigurationImmutable ==
  [][(default # 0 /\ contexts[default].core # 0) =>
       /\ globalConfig' = globalConfig
       /\ cores'[contexts[default].core] = cores[contexts[default].core]]_vars

\* The bootstrap of construction c started: its core was built from the
\* global configuration.
Bootstrapped(c) == contexts[c].core # 0

\* C18: the bootstrap only goes Uninitialized -> Bootstrapping -> Ready:
\* no started bootstrap ever fails (a rejected accessor promise is the
\* Failed state), Ready is never left, and every bootstrap started by an
\* access to the singleton eventually is Ready.
C18_NoFailedState ==
  \A c \in ContextIds : Bootstrapped(c) => contexts[c].promise # "rejected"
C18_ReadyIsTerminal ==
  \A c \in ContextIds :
    (contexts[c].promise = "resolved" /\ contexts[c].onReady) =>
      (contexts'[c].promise = "resolved" /\ contexts'[c].onReady)
C18_BootstrapReachesReady ==
  /\ [](C18_NoFailedState)
  /\ [][C18_ReadyIsTerminal]_vars
  /\ (default # 0 /\ Bootstrapped(default)) ~>
       (default # 0 /\ contexts[default].promise = "resolved"
          /\ contexts[default].onReady)

\* C19: setTokens(a) with the refresh token omitted replaces the access
\* token and leaves the refresh token as it was; setTokens(a, r) replaces
\* both.
C19_SetTokensFrame ==
  \A i \in CoreIds, a \in AccessTokens :
    /\ SetTokensCall(i, a, UNDEF) =>
         getTokens(tokenStore', i) =
           [accessToken |-> a, refreshToken |-> getTokens(tokenStore, i).refreshToken]
    /\ \A r \in RefreshTokens :
         SetTokensCall(i, a, r) =>
           getTokens(tokenStore', i) = [accessToken |-> a, refreshToken |-> r]
C19_AccessOnlyKeepsRefresh == [][C19_SetTokensFrame]_vars
C19_Witness ==
  /\ Len(cores) = 1
  /\ getTokens(tokenStore, 1) = [accessToken |-> "t1", refreshToken |-> "r2"]
  /\ ENABLED SetTokensCall(1, "t2", UNDEF)

\* C20: request() and requestMicroservice() never change credential state:
\* the step that dispatches a request, the one in which the transport takes
\* it and the one in which it succeeds or fails all leave both tokens as
\* they were; the tokens change only in a step of setTokens.
C20_RequestStepsKeepTokens ==
  (tasks' # tasks \/ wire' # wire) => tokenStore' = tokenStore
C20_OnlySetTokensWrites ==
  tokenStore' # tokenStore =>
    \E i \in CoreIds, a \in AccessTokens, r \in RefreshTokens \cup {UNDEF} :
      SetTokensCall(i, a, r)
C20_RequestKeepsCredentials ==
  [][C20_RequestStepsKeepTokens /\ C20_OnlySetTokensWrites]_vars
C20_Witness ==
  /\ tokenStore[0] = [accessToken |-> "t2", refreshToken |-> "r2"]
  /\ BagCardinality(tasks) = 2 /\ Quiet
  /\ Len(cores) = 2 /\ cores[1].mode = "server" /\ cores[2].mode = "client"

\* C21: each call of request() makes a single attempt: the step that starts
\* the call dispatches exactly one fetch(), every fetch() dispatched belongs
\* to a call started in that step, and the step in which the call ends, by
\* a 2xx answer, a non-2xx answer or a transport failure, dispatches none.
C21_OneFetchPerCall ==
  /\ Len(wire') <= 1
  /\ BagCardinality(tasks') > BagCardinality(tasks) =>
       Len(wire') = 1 /\ BagCardinality(tasks') = BagCardinality(tasks) + 1
  /\ wire' # <<>> => BagCardinality(tasks') = BagCardinality(tasks) + 1
  /\ BagCardinality(tasks') < BagCardinality(tasks) => wire' = <<>>
C22_ResponseHandling ==
  settled # NoOutcome =>
    /\ settled.status = NoStatus =>
          settled.state = "rejected" /\ settled.payload = settled.text
    /\ settled.status # NoStatus /\ ~ResponseOk(settled.status) =>
          /\ settled.state = "rejected"
          /\ settled.payload = IF settled.parseable THEN settled.text
                               ELSE StatusObject(settled.status)
    /\ ResponseOk(settled.status) =>
          settled.state = "resolved" /\ settled.payload = settled.text

\* C23: incrementStats() with a value that is not a number fails with the
\* validation error and dispatches nothing; with numbers only it dispatches
\* exactly one POST whose body has the increments under add and an empty set.
C23_ExpectedAdd(increments) ==
  CASE Len(increments) = 0 -> "{}"
    [] Len(increments) = 1 -> "{\"wins\":1}"
    [] OTHER -> "{\"wins\":1,\"losses\":1}"
C23_Validated(i, increments, g, e) ==
  IF \E k \in 1 .. Len(increments) : increments[k][2] # DataNumber(1)
  THEN /\ wire' = <<>>
       /\ tasks' = tasks
       /\ settled'.state = "rejected"
       /\ settled'.payload \in
            {"incrementStats: Value for 'wins' must be a number",
             "incrementStats: Value for 'losses' must be a number"}
  ELSE /\ Len(wire') = 1
       /\ BagCardinality(tasks') = BagCardinality(tasks) + 1
       /\ settled' = NoOutcome
       /\ wire'[1].sent.method = "POST"
       /\ wire'[1].sent.url = ApiUrl \o "/object/stats/x"
       /\ wire'[1].sent.body =
            "{\"set\":{},\"add\":" \o C23_ExpectedAdd(increments)
            \o ",\"objectId\":\"x\",\"emitAnalytics\":"
            \o (IF e THEN "true" ELSE "false") \o "}"
C23_IncrementStatsValidates ==
  [][\A i \in CoreIds, increments \in Increments, g \in Gamertags,
        e \in BOOLEAN :
       IncrementStatsWith(i, increments, g, e) =>
         C23_Validated(i, increments, g, e)]_vars
C23_Witness ==
  /\ settled.state = "rejected"
  /\ settled.payload = "incrementStats: Value for 'losses' must be a number"
  /\ wire = <<>>
  /\ tasks = EmptyBag

\* C24: the secret is used only as an input of the signature digest: of every
\* outgoing request made by an instance that holds a secret, no URL, header
\* value or body is the secret, and the same call made with another secret
\* sends the same URL, the same headers and the same body, the digest
\* excepted.
C24_OtherSecret == "0th3r"
C24_Texts(sent) ==
  {sent.method, sent.url, sent.body, sent.headers.ContentType,
   sent.headers.Scope, sent.headers.Authorization, sent.headers.Gamertag}
C24_SecretNeverTransmitted ==
  \A f \in Sent :
    LET config == ConfigOf(f)
        other == request([config EXCEPT !.secret = C24_OtherSecret], TokenAt(f),
                         f.method, f.path, f.data, f.opts)
    IN  Truthy(config.secret) =>
          /\ config.secret \notin C24_Texts(f.sent)
          /\ f.sent.url = other.url
          /\ f.sent.body = other.body
          /\ f.sent.method = other.method
          /\ [f.sent.headers EXCEPT !.Signature = NoSignature]
               = [other.headers EXCEPT !.Signature = NoSignature]
          /\ f.sent.headers.Signature.present = other.headers.Signature.present
C24_Witness ==
  \E f \in Sent :
    /\ ConfigOf(f).mode = "server" /\ ConfigOf(f).secret = Secret
    /\ f.sent.headers.Signature = Base64MD5(Secret \o Pid \o "1" \o f.path
                                              \o "{\"stats\":\"wins\"}")
    /\ f.sent.body = "{\"stats\":\"wins\"}"
    /\ f.sent.headers.Gamertag = "42"
    /\ Truthy(f.opts.microservice)

\* C25: server mode without a secret is an error raised at configuration or
\* at construction: no instance holds a server-mode configuration whose
\* secret is empty or missing, and no server-mode request leaves unsigned.
C25_EmptySecretRaisedEarlier ==
  /\ \A i \in CoreIds : cores[i].mode = "server" => Truthy(cores[i].secret)
  /\ \A f \in Sent :
       ConfigOf(f).mode = "server" =>
         /\ Truthy(ConfigOf(f).secret)
         /\ f.sent.headers.Signature # NoSignature

\* C26: a facade method of Stats, Inventory or Content called with a
\* gamertag argument issues a request that carries X-BEAM-GAMERTAG with that
\* gamertag.
C26_CalledWithGamertag(i, g) ==
  \/ GetStatsWith(i, g)
  \/ GetInventoryWith(i, g)
  \/ GetPublicManifestWith(i, g)
  \/ \E increments \in Increments, e \in BOOLEAN :
       IncrementsValid(increments) /\ IncrementStatsWith(i, increments, g, e)
C26_FacadesImpersonate ==
  [][\A i \in CoreIds, g \in Gamertags \ {UNDEF} :
       C26_CalledWithGamertag(i, g) =>
         Len(wire') = 1 /\ wire'[1].sent.headers.Gamertag = g]_vars

\* C27: without the microservice option the URL of a request is apiUrl
\* followed by the path as given; with it the URL is apiUrl, "/basic/", cid,
\* ".", pid, ".", the hash (nothing when no hash is configured), "micro_",
\* the supplied name or CoreService when the option is true, and the path.
C27_UrlConstruction ==
  \A f \in Sent :
    LET hash == IF ConfigOf(f).hash = UNDEF THEN "" ELSE ConfigOf(f).hash
        name == IF f.opts.microservice = MsTrue THEN "CoreService"
                ELSE f.opts.microservice
    IN  f.sent.url =
          IF f.opts.microservice = UNDEF
          THEN "https://api.example.com" \o f.path
          ELSE "https://api.example.com/basic/c1.p1." \o hash \o "micro_"
               \o name \o f.path
C27_Witness ==
  \E f \in Sent :
    /\ f.method = "GET" /\ f.path = "/object/stats/x"
    /\ f.opts.microservice = UNDEF
    /\ f.sent.url = "https://api.example.com/object/stats/x"

\* C28: after the memoized reference was cleared, the next access constructs
\* a new session from the global configuration of that moment (in server
\* mode it is ready at once and dispatches nothing, in client mode without
\* a stored token it dispatches the guest login), the requests of a session
\* built in server mode with a secret are signed, and neither clearing nor
\* the new construction modifies a session obtained before.
C28_FreshConstruction ==
  default = 0 /\ default' # 0 =>
    /\ Len(contexts') = Len(contexts) + 1
    /\ default' = Len(contexts')
    /\ IF globalConfig = NoConfig
       THEN contexts'[default'].error = "NotConfigured" /\ cores' = cores
       ELSE /\ Len(cores') = Len(cores) + 1
            /\ contexts'[default'].core = Len(cores')
            /\ cores'[Len(cores')] = globalConfig
            /\ globalConfig.mode = "server" =>
                 /\ wire' = <<>>
                 /\ contexts'[default'].onReady
                 /\ contexts'[default'].promise = "resolved"
            /\ globalConfig.mode # "server" /\ tokenStore[0].accessToken = NULL =>
                 /\ wire' # <<>>
                 /\ \A k \in 1 .. Len(wire') :
                      /\ wire'[k].core = Len(cores')
                      /\ wire'[k].sent.body = "{\"grant_type\":\"guest\"}"
C28_EarlierSessionsKept ==
  default' # default =>
    /\ \A c \in 1 .. Len(contexts) : contexts'[c] = contexts[c]
    /\ \A i \in CoreIds : cores'[i] = cores[i]
C28_SessionRequestsSigned ==
  \A f \in Sent :
    ConfigOf(f).mode = "server" /\ ConfigOf(f).secret = Secret =>
      /\ f.sent.headers.Signature.present
      /\ f.sent.headers.Authorization = ABSENT
C28_ClearedThenFresh ==
  /\ [][C28_FreshConstruction /\ C28_EarlierSessionsKept]_vars
  /\ [](C28_SessionRequestsSigned)
C28_Witness ==
  /\ Len(contexts) = 2 /\ default = 2
  /\ contexts[1].bootPath = "guest" /\ contexts[1].onReady
  /\ contexts[1].playerId # NullId
  /\ cores[contexts[1].core].mode = UNDEF
  /\ contexts[2].bootPath = "server" /\ contexts[2].onReady
  /\ contexts[2].bootGuest = 0
  /\ \E f \in Sent : f.core = contexts[2].core /\ f.sent.headers.Signature.present

\* C29: whenever no request is in flight, the playerId of a session built in
\* client mode is the id of the account that owns the stored access token;
\* in particular this holds when the answer to an identity fetch writes
\* playerId and leaves nothing in flight, whatever the order of the answers.
C29_WritesIdentity(c) ==
  /\ ClientContext(c)
  /\ contexts'[c].playerId # contexts[c].playerId
C29_IdleIdentityMatchesToken ==
  tasks' = EmptyBag /\ wire' = <<>> =>
    \A c \in 1 .. Len(contexts) :
      C29_WritesIdentity(c) =>
        contexts'[c].playerId =
          AccountOf(getTokens(tokenStore', contexts[c].core).accessToken)
C29_IdentityMatchesToken == [][C29_IdleIdentityMatchesToken]_vars

\* C30: the steps of one login chain are ordered: tokens are written only by
\* the handler that receives a token response; the handler of a successful
\* login through a session stores the tokens and dispatches the identity
\* fetch, which carries the token just stored, the one held when it leaves,
\* and does not resolve readiness; readiness is resolved only by a handler
\* that receives the answer to an identity fetch of that session.
C30_StoredOnResponse ==
  tokenStore' # tokenStore =>
    \E task \in Running(tasks) :
      /\ task.awaits = "token"
      /\ CopiesIn(task, tasks') < CopiesIn(task, tasks)
C30_StoreThenDispatch ==
  \A task \in Running(tasks) :
    \A resp \in Responses(task) :
      (task.kind \in LoginOps /\ task.ctx # 0 /\ resp.ok
         /\ RespondLoginWith(task, resp)) =>
        /\ contexts' = contexts
        /\ Len(wire') = 1
        /\ wire'[1].path = "/basic/accounts/me"
        /\ wire'[1].sent.headers.Authorization =
             AuthorizationHeader(cores[task.core],
                                 getTokens(tokenStore', task.core).accessToken,
                                 wire'[1].opts)
        /\ ClientContext(task.ctx) =>
             /\ wire'[1].sent.headers.Authorization = "Bearer " \o resp.access_token
             /\ \E hook \in Running(tasks') :
                  /\ hook.kind = "_resolveOnReady" /\ hook.ctx = task.ctx
                  /\ hook.auth = "Bearer " \o resp.access_token
C30_ReadyAfterIdentityFetch ==
  \A c \in ContextIds :
    contexts'[c].onReady /\ ~contexts[c].onReady =>
      \E task \in Running(tasks) :
        /\ task.ctx = c /\ task.awaits = "me"
        /\ CopiesIn(task, tasks') < CopiesIn(task, tasks)
C30_DispatchedWithStoredToken ==
  \A f \in Sent :
    f.path = "/basic/accounts/me" /\ f.sent.headers.Authorization # ABSENT =>
      f.sent.headers.Authorization = "Bearer " \o TokenAt(f)
C30_LoginChainOrdered ==
  /\ [][C30_StoredOnResponse /\ C30_StoreThenDispatch
          /\ C30_ReadyAfterIdentityFetch]_vars
  /\ [](C30_DispatchedWithStoredToken)
C30_Witness ==
  /\ default = 1 /\ contexts[1].onReady /\ contexts[1].playerId = 1
  /\ tokenStore[0].accessToken = "t2"
  /\ Len(wire) = 1 /\ wire[1].path = "/basic/accounts/me"
  /\ wire[1].sent.headers.Authorization = "Bearer t2"
  /\ BagCardinality(tasks) = 1
  /\ \E task \in Running(tasks) :
       task.kind = "_resolveOnReady" /\ task.ctx = 1 /\ ~task.boot

\* C31: onReady resolves only after the bootstrap and every identity fetch
\* it issued have completed: while onReady of a session is resolved, no
\* request of its bootstrap is in flight.
C31_ReadyAfterBootstrap ==
  \A c \in ContextIds :
    contexts[c].onReady =>
      \A task \in Running(tasks) : ~(task.ctx = c /\ task.boot)

\* C32: nothing runs in the background: the handler in which a login method
\* returns leaves no request started by that login in flight, and when the
\* promise of the singleton construction settles no request of its
\* bootstrap is in flight.
C32_LoginLeavesNothing ==
  \A task \in Running(tasks) :
    \A resp \in Responses(task) :
      (task.kind \in LoginOps /\ RespondLoginWith(task, resp)) =>
        /\ wire' = <<>>
        /\ HookCount(tasks') = HookCount(tasks)
C32_ConstructionLeavesNothing ==
  \A c \in ContextIds :
    contexts[c].promise = "pending" /\ contexts'[c].promise # "pending" =>
      \A task \in Running(tasks') : ~(task.ctx = c /\ task.boot)
C32_NothingInBackground ==
  [][C32_LoginLeavesNothing /\ C32_ConstructionLeavesNothing]_vars

\* C33: a login method whose request fails (rejected fetch, non-success
\* status, or a body that cannot be parsed) rejects with the failure of
\* request() and changes nothing: tokens and sessions, playerId included,
\* keep their values, the hook is not started and nothing is dispatched.
C33_FailurePayload(resp) ==
  IF resp.status = NoStatus THEN resp.text
  ELSE IF ResponseOk(resp.status) THEN "SyntaxError"
  ELSE IF resp.parseable THEN resp.text
  ELSE StatusObject(resp.status)
C33_FailedLogin ==
  \A task \in Running(tasks) :
    \A resp \in Responses(task) :
      (task.kind \in LoginOps /\ ~resp.ok /\ RespondLoginWith(task, resp)) =>
        /\ settled'.call = task.kind
        /\ settled'.state = "rejected"
        /\ settled'.payload = C33_FailurePayload(resp)
        /\ tokenStore' = tokenStore
        /\ contexts' = contexts
        /\ wire' = <<>>
        /\ HookCount(tasks') = HookCount(tasks)
        /\ BagCardinality(tasks') = BagCardinality(tasks) - 1
C33_FailedLoginChangesNothing == [][C33_FailedLogin]_vars
C33_Witness ==
  /\ settled.call = "loginUser" /\ settled.state = "rejected"
  /\ settled.payload = "{\"status\":404}"
  /\ default = 1 /\ contexts[1].playerId = 1 /\ contexts[1].onReady
  /\ tokenStore[0] = [accessToken |-> "t1", refreshToken |-> "r1"]
  /\ tasks = EmptyBag /\ wire = <<>>

\* C34: the signature depends on nothing but the secret, the project id, the
\* version, the path, the body (unless DELETE) and the method: a signed
\* request carries the signature that the same method, path and data give
\* under any other gamertag, auth flag, microservice option, stored token,
\* customer id and content hash; the gamertag travels in its own header.
C34_Signed(f) ==
  Base64MD5(ConfigOf(f).secret \o ConfigOf(f).pid \o "1" \o f.path
            \o (IF TruthyData(f.data) /\ f.method # "DELETE"
                THEN JSONStringify(f.data) ELSE ""))
C34_Elsewhere(f) ==
  { request([ConfigOf(f) EXCEPT !.cid = "c2", !.hash = hash], token,
            f.method, f.path, f.data, Options(~f.opts.auth, ms, g)) :
      hash \in {"h2"}, token \in {NULL, "t2"}, ms \in {UNDEF, "Other"},
      g \in {UNDEF, "7"} }
C34_SignatureDeterministic ==
  \A f \in Sent :
    f.sent.headers.Signature.present =>
      /\ f.sent.headers.Signature = C34_Signed(f)
      /\ \A other \in C34_Elsewhere(f) :
           other.headers.Signature = f.sent.headers.Signature
      /\ f.sent.headers.Gamertag =
           IF f.opts.gamertag = UNDEF THEN ABSENT ELSE f.opts.gamertag
C34_Witness ==
  \E f \in Sent :
    /\ ConfigOf(f).mode = "server" /\ f.opts.gamertag = "42" /\ f.opts.auth
    /\ TokenAt(f) = "t1" /\ f.method = "POST"
    /\ f.sent.headers.Gamertag = "42"
    /\ f.sent.headers.Signature =
         Base64MD5("s3cr3tp11/object/stats/x{\"stats\":\"wins\"}")

\* C35: in server mode, for a method other than DELETE, the signed string
\* ends with the JSON body exactly when the dispatched request has that
\* body: it is secret, project id, version and path, followed by the body
\* sent on the wire, if any.
C35_SignatureCoversSentBody ==
  \A f \in Sent :
    f.sent.headers.Signature.present /\ f.method # "DELETE" =>
      f.sent.headers.Signature =
        Base64MD5(ConfigOf(f).secret \o ConfigOf(f).pid \o "1" \o f.path
                  \o (IF f.sent.body = ABSENT THEN "" ELSE f.sent.body))

\* C36: in server mode the path and query that is signed is the path and
\* query of the URL requested: the URL is apiUrl followed by some path, and
\* the signed string is secret, project id, version, that path, and the
\* signed body.
C36_MicroservicePaths(f) ==
  { "/basic/" \o ConfigOf(f).cid \o "." \o ConfigOf(f).pid \o "." \o hash
    \o "micro_" \o name \o path :
      hash \in {"", "h1"}, name \in {"CoreService", "Chat"}, path \in Paths }
C36_SignedPathIsUrlPath ==
  \A f \in Sent :
    f.sent.headers.Signature.present =>
      \E path \in Paths \cup C36_MicroservicePaths(f) :
        /\ f.sent.url = ConfigOf(f).apiUrl \o path
        /\ f.sent.headers.Signature =
             Base64MD5(ConfigOf(f).secret \o ConfigOf(f).pid \o "1" \o path
                       \o (IF TruthyData(f.data) /\ f.method # "DELETE"
                           THEN JSONStringify(f.data) ELSE ""))

\* C37: whenever the promise of the singleton has resolved to a session, the
\* onReady of that session is resolved: on every path of createDefault()
\* the resolver is called before the session is returned.
C37_ResolvedImpliesReady ==
  \A c \in ContextIds : contexts[c].promise = "resolved" => contexts[c].onReady
C37_Witness ==
  /\ default = 1 /\ contexts[1].promise = "resolved" /\ contexts[1].onReady
  /\ contexts[1].bootPath = "guest" /\ contexts[1].bootMeFailed >= 1
  /\ contexts[1].playerId = NullId
  /\ tasks = EmptyBag /\ Quiet

\* C38: a failed construction stays memoized: while the memoized promise is
\* a rejected one, whatever happens (accesses, configure) the reference
\* stays the same or is cleared, and no session, no instance and no
\* bootstrap request is created; a failed construction has no request in
\* flight and its onReady is never resolved.
C38_FailedStaysMemoized ==
  default # 0 /\ contexts[default].promise = "rejected" =>
    /\ default' \in {default, 0}
    /\ Len(contexts') = Len(contexts)
    /\ contexts'[default] = contexts[default]
    /\ cores' = cores
    /\ \A task \in Running(tasks') : task.boot => CopiesIn(task, tasks') <= CopiesIn(task, tasks)
    /\ \A k \in 1 .. Len(wire') : wire'[k].path # "/basic/auth/token"
C38_FailedNeverReady ==
  \A c \in ContextIds :
    contexts[c].promise = "rejected" =>
      /\ ~contexts[c].onReady
      /\ \A task \in Running(tasks) : task.ctx # c
C38_FailedConstructionMemoized ==
  [][C38_FailedStaysMemoized]_vars /\ [](C38_FailedNeverReady)
C38_Witness ==
  /\ default = 1 /\ Len(contexts) = 1
  /\ contexts[1].promise = "rejected" /\ contexts[1].error = "NotConfigured"
  /\ globalConfig.mode = UNDEF /\ globalConfig # NoConfig
  /\ cores = <<>> /\ tasks = EmptyBag /\ Quiet

\* C39: playerId is written only by the handler of a successful identity
\* fetch of the session, with the id of the answer, and is never cleared:
\* a failed identity fetch leaves it as it was and a non-null playerId
\* stays non-null.
C39_WrittenByIdentityFetch ==
  \A c \in ContextIds :
    /\ contexts'[c].playerId # contexts[c].playerId =>
         \E task \in Running(tasks) :
           /\ task.ctx = c /\ task.awaits = "me"
           /\ CopiesIn(task, tasks') < CopiesIn(task, tasks)
           /\ \E resp \in Responses(task) :
                resp.ok /\ contexts'[c].playerId = resp.id
    /\ contexts[c].playerId # NullId => contexts'[c].playerId # NullId
C39_IdentityNeverCleared == [][C39_WrittenByIdentityFetch]_vars
C39_Witness ==
  /\ default = 1 /\ contexts[1].playerId = 1 /\ contexts[1].onReady
  /\ contexts[1].bootMeFailed = 0
  /\ tokenStore[0].accessToken = "t2"
  /\ tasks = EmptyBag /\ Quiet
====
